---- MODULE Spec2Model ----
(***************************************************************************)
(* A model of the Ngenic Tune integration: the SetpointSchedule wrapper    *)
(* and Tune.async_setpoint_schedule of the API client, the sensor, climate *)
(* and switch entities, the service handlers and the config-entry          *)
(* lifecycle.                                                              *)
(*                                                                         *)
(* Time is counted in ticks of half a minute, so that truncating the       *)
(* clock to the minute (replace(second=0, microsecond=0)) is visible.      *)
(* An ISO-8601 string is a record [kind, t, off]: the wall-clock reading t *)
(* and the UTC offset off it carries; parsing it (fromisoformat then       *)
(* astimezone(UTC)) yields the instant t - off.                            *)
(***************************************************************************)
EXTENDS Integers, Sequences, FiniteSets, TLC

VARIABLES
    clock,      \* the wall clock (UTC), in ticks
    api,        \* the setpoint schedules the vendor API holds for the tune
    cache,      \* the client's cached GET response for the schedules URL
    sched,      \* the SetpointSchedule object the program holds
    lastGet,    \* what the last Tune.async_setpoint_schedule call did
    reqs,       \* the HTTP requests the last SetpointSchedule.async_update issued
    writes,     \* how many requests the API has answered with success
    lastOp,     \* the last operation that ran
    ekind,      \* the class of the entity under study
    ent,        \* the entity: available, state, target temperature, added to hass
    eout,       \* what the entity's last async_update did
    tapi,       \* per tune: the setpoint schedules the vendor API holds
    tcache,     \* per tune: the client's cached response for the schedules URL
    roomActive, \* per room: the activeControl attribute the vendor API holds
    registered, \* the services registered with hass
    loaded,     \* whether the config entry is set up
    clientOpen, \* whether the AsyncNgenic client in hass.data is open
    call,       \* the service call in progress, and the last one
    calls,      \* how many service calls were started
    log,        \* what the last pass of a handler's loop did, in order
    pend,       \* the entities with a dispatcher callback scheduled
    hent,       \* the switch and away sensors known to hass
    ctunes,     \* per tune: the tune the API returns to the climate platform
    csetup,     \* the climate platform's async_setup_entry: phase, tunes left, devices
    entries,    \* the config entries of the domain: token and unique id of each
    flows,      \* per config flow: where it stands, its token, its unique id
    yamlToken,  \* the token of configuration.yaml, or "none"
    setupRan,   \* whether async_setup has run
    submits,    \* how many times a form was submitted
    created,    \* the sensor entities created for the nodes
    theNode     \* a Node of the API client: its cached measurement types, the
                \* API's answer for it, and what its last operation did

schedVars == <<clock, api, cache, sched, lastGet, reqs, writes, lastOp>>
sensVars == <<ekind, ent, eout>>
cliVars == <<ctunes, csetup>>
entVars == <<ekind, ent, eout, ctunes, csetup>>
flowVars == <<entries, flows, yamlToken, setupRan, submits>>
hassVars == <<tapi, tcache, roomActive, registered, loaded, clientOpen, call, calls,
              log, pend, hent>>
nodeVars == <<created, theNode>>
svcVars == <<tapi, tcache, roomActive, registered, loaded, clientOpen, call, calls,
             log, pend, hent, entries, flows, yamlToken, setupRan, submits, created,
             theNode>>
vars == <<clock, api, cache, sched, lastGet, reqs, writes, lastOp, ekind, ent, eout,
          tapi, tcache, roomActive, registered, loaded, clientOpen, call, calls,
          log, pend, hent, ctunes, csetup, entries, flows, yamlToken, setupRan,
          submits, created, theNode>>

----------------------------------------------------------------------------
(* Bounds of the model *)

MaxClock == 4
MaxApi == 2
MaxWrites == 2
MaxCalls == 1
MaxSubmits == 3
MaxSensors == 3
MaxNodeOps == 4

(* Program constants *)

TicksPerMinute == 2
AwayDays == 60
LowestSetpointDefault == 12

SETPONT_SCHEDULE_NAME == "HA away"
OtherName == "Vacation"

----------------------------------------------------------------------------
(* Datetimes and their ISO strings *)

DateAbsent == [kind |-> "absent", t |-> 0, off |-> 0]
DateNull   == [kind |-> "null", t |-> 0, off |-> 0]
DateBad    == [kind |-> "bad", t |-> 0, off |-> 0]
Iso(t, off) == [kind |-> "iso", t |-> t, off |-> off]

None == [ok |-> FALSE, t |-> 0]
Some(t) == [ok |-> TRUE, t |-> t]

\* datetime.now(UTC).replace(second=0, microsecond=0)
NowMinute(c) == c - (c % TicksPerMinute)

\* datetime.fromisoformat(s).astimezone(UTC); None when the key is missing,
\* the value is None or the string does not parse
ParseUtc(d) == IF d.kind = "iso" THEN Some(d.t - d.off) ELSE None

\* dt.isoformat() of an aware UTC datetime
IsoformatUtc(t) == Iso(t, 0)

\* an aware datetime [t, off] converted with astimezone(UTC).isoformat()
AsUtcIsoformat(dt) == IsoformatUtc(dt.t - dt.off)

TimedeltaDays(n) == n * 24 * 60 * TicksPerMinute

----------------------------------------------------------------------------
(* SetpointSchedule *)

NoUuid == "none"
Uuids == {"u1", "u2", "u3"}

start_time(json) == ParseUtc(json.startTime)
end_time(json) == ParseUtc(json.endTime)

InitActive_EndInclusive(json, c) ==
    IF start_time(json).ok /\ end_time(json).ok
    THEN NowMinute(c) >= start_time(json).t /\ NowMinute(c) <= end_time(json).t
    ELSE FALSE

\* SetpointSchedule.__init__: the _active flag computed at construction
InitActive(json, c) ==
    IF start_time(json).ok /\ end_time(json).ok
    THEN NowMinute(c) >= start_time(json).t /\ NowMinute(c) < end_time(json).t
    ELSE FALSE

NewSchedule(json, c) == [exists |-> TRUE, json |-> json, active |-> InitActive(json, c)]

NoJson == [name |-> "", uuid |-> NoUuid, startTime |-> DateAbsent, endTime |-> DateAbsent,
           autoTune |-> FALSE, lowestSetpoint |-> 0]
NoSchedule == [exists |-> FALSE, json |-> NoJson, active |-> FALSE]

\* the JSON Tune.async_setpoint_schedule builds when no schedule has the name
DefaultJson == [name |-> SETPONT_SCHEDULE_NAME, uuid |-> NoUuid,
                startTime |-> DateAbsent, endTime |-> DateAbsent,
                autoTune |-> TRUE, lowestSetpoint |-> LowestSetpointDefault]

activate_away_UntruncatedNow(s, c) ==
    [s EXCEPT !.active = TRUE,
              !.json.startTime = IsoformatUtc(c),
              !.json.endTime = IsoformatUtc(c + TimedeltaDays(AwayDays))]

\* SetpointSchedule.activate_away
activate_away(s, c) ==
    [s EXCEPT !.active = TRUE,
              !.json.startTime = IsoformatUtc(NowMinute(c)),
              !.json.endTime = IsoformatUtc(NowMinute(c) + TimedeltaDays(AwayDays))]

deactivate_away_KeepsActive(s) ==
    [s EXCEPT !.json.startTime = DateNull,
              !.json.endTime = DateNull]

deactivate_away_KeepsTimes(s) == [s EXCEPT !.active = FALSE]

\* SetpointSchedule.deactivate_away
deactivate_away(s) ==
    [s EXCEPT !.active = FALSE,
              !.json.startTime = DateNull,
              !.json.endTime = DateNull]

\* SetpointSchedule.set_schedule
set_schedule(s, st, en) ==
    [s EXCEPT !.active = TRUE,
              !.json.startTime = AsUtcIsoformat(st),
              !.json.endTime = AsUtcIsoformat(en)]

UpdateRequests_PutWhenInactive(s) ==
    IF ~s.active /\ s.json.uuid = NoUuid
    THEN <<>>
    ELSE IF s.json.uuid # NoUuid
    THEN <<[method |-> "PUT", uuid |-> s.json.uuid, body |-> s.json]>>
    ELSE IF ~s.active
    THEN <<[method |-> "DELETE", uuid |-> s.json.uuid, body |-> NoJson]>>
    ELSE <<[method |-> "POST", uuid |-> NoUuid, body |-> s.json]>>

\* SetpointSchedule.async_update: the requests it issues, in order
UpdateRequests(s) ==
    IF ~s.active /\ s.json.uuid = NoUuid
    THEN <<>>
    ELSE IF ~s.active
    THEN <<[method |-> "DELETE", uuid |-> s.json.uuid, body |-> NoJson]>>
    ELSE IF s.json.uuid # NoUuid
    THEN <<[method |-> "PUT", uuid |-> s.json.uuid, body |-> s.json]>>
    ELSE <<[method |-> "POST", uuid |-> NoUuid, body |-> s.json]>>

----------------------------------------------------------------------------
(* The vendor API, as the client's requests see it *)

ApiUuids(a) == {a[i].uuid : i \in DOMAIN a}

FreshUuid(a) == CHOOSE u \in Uuids : u \notin ApiUuids(a)

\* whether the API can answer the request with success
ApiAccepts(a, r) ==
    CASE r.method = "DELETE" -> r.uuid \in ApiUuids(a)
      [] r.method = "PUT"    -> r.uuid \in ApiUuids(a)
      [] r.method = "POST"   -> Len(a) < MaxApi
      [] OTHER               -> FALSE

\* the schedules the API holds after a successful request
ApiApply(a, r) ==
    CASE r.method = "DELETE" -> SelectSeq(a, LAMBDA x : x.uuid # r.uuid)
      [] r.method = "PUT"    -> [i \in DOMAIN a |-> IF a[i].uuid = r.uuid THEN r.body ELSE a[i]]
      [] r.method = "POST"   -> Append(a, [r.body EXCEPT !.uuid = FreshUuid(a)])
      [] OTHER               -> a

NoCache == [valid |-> FALSE, body |-> <<>>]

\* NgenicBase._async_get: the last response for the URL is served from the
\* cache unless the cache is empty or the caller invalidates it
AsyncGetBody(c, a, invalidate_cache) ==
    IF invalidate_cache \/ ~c.valid THEN a ELSE c.body

----------------------------------------------------------------------------
(* Tune.async_setpoint_schedule *)

RECURSIVE LastNamed(_, _)
LastNamed(body, name) ==
    IF body = <<>> THEN DefaultJson
    ELSE IF body[Len(body)].name = name THEN body[Len(body)]
    ELSE LastNamed(SubSeq(body, 1, Len(body) - 1), name)

RECURSIVE FirstNamed(_, _)
FirstNamed(body, name) ==
    IF body = <<>> THEN DefaultJson
    ELSE IF Head(body).name = name THEN Head(body)
    ELSE FirstNamed(Tail(body), name)

\* the JSON of the schedule the call returns for a response body
SetpointScheduleJson(body) == FirstNamed(body, SETPONT_SCHEDULE_NAME)

\* the flag the call hands to _async_get
GetInvalidate(invalidate_cache) == invalidate_cache

NoGet == [done |-> FALSE, inv |-> FALSE, stale |-> FALSE, body |-> <<>>]

AsyncSetpointSchedule(invalidate_cache) ==
    LET body == AsyncGetBody(cache, api, GetInvalidate(invalidate_cache)) IN
    /\ \E ok \in BOOLEAN :
         IF ok
         THEN /\ cache' = [valid |-> TRUE, body |-> body]
              /\ sched' = NewSchedule(SetpointScheduleJson(body), clock)
              /\ lastGet' = [done |-> TRUE, inv |-> invalidate_cache,
                             stale |-> cache.valid /\ cache.body # api,
                             body |-> body]
              /\ lastOp' = "init"
         ELSE /\ UNCHANGED <<cache, sched, lastGet>>
              /\ lastOp' = "get_failed"
    /\ UNCHANGED <<clock, api, reqs, writes>>

----------------------------------------------------------------------------
(* Operations on the schedule the program holds *)

\* the (start_time, end_time) pairs a caller hands to set_schedule: aware
\* datetimes, one range that holds minute 1 and one that starts later
SetInputs == {<<[t |-> 4, off |-> 2], [t |-> 4, off |-> 0]>>,
              <<[t |-> 8, off |-> 0], [t |-> 12, off |-> 2]>>}

Tick ==
    /\ clock < MaxClock
    /\ clock' = clock + 1
    /\ lastOp' = "tick"
    /\ UNCHANGED <<api, cache, sched, lastGet, reqs, writes>>

ActivateAway ==
    /\ sched.exists
    /\ sched' = activate_away(sched, clock)
    /\ lastOp' = "activate_away"
    /\ UNCHANGED <<clock, api, cache, lastGet, reqs, writes>>

DeactivateAway ==
    /\ sched.exists
    /\ sched' = deactivate_away(sched)
    /\ lastOp' = "deactivate_away"
    /\ UNCHANGED <<clock, api, cache, lastGet, reqs, writes>>

SetSchedule ==
    /\ sched.exists
    /\ \E p \in SetInputs : sched' = set_schedule(sched, p[1], p[2])
    /\ lastOp' = "set_schedule"
    /\ UNCHANGED <<clock, api, cache, lastGet, reqs, writes>>

\* SetpointSchedule.async_update: the request is sent; the API answers with
\* success (and holds the change) or the call raises
ScheduleAsyncUpdate ==
    /\ sched.exists
    /\ reqs' = UpdateRequests(sched)
    /\ \E ok \in BOOLEAN :
         IF ok
         THEN /\ \A i \in DOMAIN reqs' : ApiAccepts(api, reqs'[i])
              /\ reqs' # <<>> => writes < MaxWrites
              /\ api' = IF reqs' = <<>> THEN api ELSE ApiApply(api, reqs'[1])
              /\ writes' = writes + Len(reqs')
              /\ lastOp' = "update_ok"
         ELSE /\ reqs' # <<>>
              /\ UNCHANGED <<api, writes>>
              /\ lastOp' = "update_failed"
    /\ UNCHANGED <<clock, cache, sched, lastGet>>

----------------------------------------------------------------------------
(* The schedules the API may hold at start *)

StartVals == {DateAbsent, DateNull, DateBad, Iso(2, 0), Iso(3, 0), Iso(4, 2)}
EndVals == {DateAbsent, DateNull, DateBad, Iso(3, 0), Iso(4, 0), Iso(6, 2)}

ApiSchedule(n, u, st, en) ==
    [name |-> n, uuid |-> u, startTime |-> st, endTime |-> en,
     autoTune |-> FALSE, lowestSetpoint |-> LowestSetpointDefault + 3]

FirstSchedules ==
    {ApiSchedule(n, "u1", st, en) :
        n \in {SETPONT_SCHEDULE_NAME, OtherName}, st \in StartVals, en \in EndVals}

\* a single schedule with every combination of name and start/end value
WideApis == {<<a>> : a \in FirstSchedules}

\* no schedule, the named one alone, the named one after another one, and two
\* schedules with the name
NarrowApis ==
    {<<>>,
     <<ApiSchedule(SETPONT_SCHEDULE_NAME, "u1", Iso(2, 0), Iso(4, 0))>>,
     <<ApiSchedule(OtherName, "u1", Iso(2, 0), Iso(4, 0)),
       ApiSchedule(SETPONT_SCHEDULE_NAME, "u2", Iso(4, 2), Iso(3, 0))>>,
     <<ApiSchedule(SETPONT_SCHEDULE_NAME, "u1", DateNull, DateAbsent),
       ApiSchedule(SETPONT_SCHEDULE_NAME, "u2", Iso(2, 0), Iso(4, 0))>>}

----------------------------------------------------------------------------
(* Values an entity reports, and the answers of the API *)

VNone == [k |-> "none", n |-> 0, s |-> ""]
VNum(n) == [k |-> "num", n |-> n, s |-> ""]
VStr(str) == [k |-> "str", n |-> 0, s |-> str]
VIso(t) == [k |-> "iso", n |-> t, s |-> ""]

\* numbers are counted in hundredths
Full == 10000

\* round(x, 1)
Round1(n) == ((n + 5) \div 10) * 10

\* int(x)
IntOf(n) == (n \div 100) * 100

\* the "value" of a measurement, a percentage of a node status or the
\* targetTemperature of a room: a number, or None
Num(n) == [ok |-> TRUE, n |-> n]
Null == [ok |-> FALSE, n |-> 0]
ApiValues == {Num(2134), Num(2137), Null}

Raise == [kind |-> "raise", vs |-> <<>>, sch |-> NoSchedule]
Nothing == [kind |-> "none", vs |-> <<>>, sch |-> NoSchedule]
Obj(v) == [kind |-> "dict", vs |-> <<v>>, sch |-> NoSchedule]
List(vs) == [kind |-> "list", vs |-> vs, sch |-> NoSchedule]
Sched(sc) == [kind |-> "sched", vs |-> <<>>, sch |-> sc]

\* node.async_measurement: raises, returns None, one measurement or a list
MeasurementOutcomes ==
    {Raise, Nothing, List(<<>>)}
        \cup {Obj(v) : v \in ApiValues}
        \cup {List(<<Num(2134), v>>) : v \in ApiValues}

\* node.async_status: raises, returns None or a NodeStatus
StatusOutcomes == {Raise, Nothing} \cup {Obj(v) : v \in ApiValues}

\* tune.async_room: raises or returns the room
RoomOutcomes == {Raise} \cup {Obj(v) : v \in ApiValues}

\* tune.async_setpoint_schedule: raises or returns a schedule
ScheduleJsons ==
    {DefaultJson,
     ApiSchedule(SETPONT_SCHEDULE_NAME, "u1", Iso(2, 0), Iso(4, 0)),
     ApiSchedule(SETPONT_SCHEDULE_NAME, "u1", Iso(0, 0), Iso(8, 0))}
ScheduleOutcomes == {Raise} \cup {Sched(NewSchedule(j, 2)) : j \in ScheduleJsons}

----------------------------------------------------------------------------
(* get_measurement_value *)

Ok(v) == [raised |-> FALSE, val |-> v]
Raised == [raised |-> TRUE, val |-> VNone]

get_measurement_value_ZeroWhenMissing(o) ==
    IF o.kind = "raise" THEN VNone
    ELSE IF o.kind = "none" \/ o.vs = <<>> THEN VNum(0)
    ELSE LET m == IF o.kind = "list" THEN o.vs[Len(o.vs)] ELSE o.vs[1] IN
         IF m.ok THEN VNum(m.n) ELSE VNone

\* sensors/__init__.py: the value, or None
get_measurement_value(o) ==
    IF o.kind = "raise" THEN VNone
    ELSE IF o.kind = "none" \/ o.vs = <<>> THEN VNone
    ELSE LET m == IF o.kind = "list" THEN o.vs[Len(o.vs)] ELSE o.vs[1] IN
         IF m.ok THEN VNum(m.n) ELSE VNone

\* sensor.py: the value, 0 when there is no measurement; an error of the
\* request is not caught
legacy_get_measurement_value(o) ==
    IF o.kind = "raise" THEN Raised
    ELSE IF o.kind = "none" \/ o.vs = <<>> THEN Ok(VNum(0))
    ELSE LET m == IF o.kind = "list" THEN o.vs[Len(o.vs)] ELSE o.vs[1] IN
         IF m.ok THEN Ok(VNum(m.n)) ELSE Ok(VNone)

----------------------------------------------------------------------------
(* _async_fetch_measurement of every sensor class *)

\* round(current, 1) of a value that may be None
RoundOrRaise(v) == IF v.k = "num" THEN Ok(VNum(Round1(v.n))) ELSE Raised

\* round(val, 1) if val is not None, else None
RoundOrNone(v) == IF v.k = "num" THEN Ok(VNum(Round1(v.n))) ELSE Ok(VNone)

\* sensors/base.py NgenicSensor (temperature, humidity)
FetchBase(o) == RoundOrRaise(get_measurement_value(o))

\* sensors/power.py
FetchPower(o) ==
    LET g == get_measurement_value(o) IN
    IF g.k = "num" THEN Ok(VNum(Round1(g.n * 1000))) ELSE Raised

\* sensors/current.py, voltage.py, energy.py, energy_this_month.py,
\* energy_last_month.py
FetchOrNone(o) == RoundOrNone(get_measurement_value(o))

\* sensors/battery.py, signal_strength.py
FetchStatus(o) ==
    IF o.kind = "raise" THEN Ok(VNone)
    ELSE IF o.kind = "none" THEN Ok(VNum(Full))
    ELSE IF o.vs[1].ok THEN Ok(VNum(IntOf(o.vs[1].n)))
    ELSE Ok(VNum(Full))

\* sensors/away.py NgenicAwayModeSensor
FetchAwayMode(o) ==
    IF o.kind = "raise" THEN Ok(VNone)
    ELSE Ok(VStr(IF o.sch.active THEN "Active" ELSE "Inactive"))

\* sensors/away.py NgenicAwayScheduledFromSensor
FetchAwayFrom(o) ==
    IF o.kind = "raise" THEN Ok(VNone)
    ELSE IF start_time(o.sch.json).ok
    THEN Ok(VIso(start_time(o.sch.json).t))
    ELSE Ok(VNone)

\* sensors/away.py NgenicAwayScheduledToSensor
FetchAwayTo(o) ==
    IF o.kind = "raise" THEN Ok(VNone)
    ELSE IF end_time(o.sch.json).ok
    THEN Ok(VIso(end_time(o.sch.json).t))
    ELSE Ok(VNone)

\* sensor.py NgenicSensor (temperature, humidity, the three energy sensors)
FetchLegacy(o) ==
    LET g == legacy_get_measurement_value(o) IN
    IF g.raised THEN Raised ELSE RoundOrRaise(g.val)

\* sensor.py NgenicPowerSensor
FetchLegacyPower(o) ==
    LET g == legacy_get_measurement_value(o) IN
    IF g.raised \/ g.val.k # "num" THEN Raised
    ELSE Ok(VNum(Round1(g.val.n * 1000)))

\* sensor.py NgenicBatterySensor, NgenicSignalSensor
FetchLegacyStatus(o) ==
    IF o.kind = "raise" THEN Raised
    ELSE IF o.kind = "none" THEN Ok(VNum(Round1(Full)))
    ELSE IF o.vs[1].ok THEN Ok(VNum(Round1(o.vs[1].n)))
    ELSE Raised

PackageMeasurementKinds ==
    {"temperature", "humidity", "power", "current", "voltage", "energy",
     "energy_this_month", "energy_last_month"}
PackageStatusKinds == {"battery", "signal_strength"}
AwayKinds == {"away_mode", "away_from", "away_to"}
PackageKinds == PackageMeasurementKinds \cup PackageStatusKinds \cup AwayKinds
LegacyMeasurementKinds ==
    {"legacy_temp", "legacy_humidity", "legacy_power", "legacy_energy",
     "legacy_energy_month", "legacy_energy_last_month"}
LegacyStatusKinds == {"legacy_battery", "legacy_signal"}
LegacyKinds == LegacyMeasurementKinds \cup LegacyStatusKinds
SensorKinds == PackageKinds \cup LegacyKinds
Kinds == SensorKinds \cup {"climate"}

\* the answers the API can give to the request the class makes
OutcomesOf(kind) ==
    IF kind \in PackageMeasurementKinds \cup LegacyMeasurementKinds \cup {"climate"}
    THEN MeasurementOutcomes
    ELSE IF kind \in PackageStatusKinds \cup LegacyStatusKinds THEN StatusOutcomes
    ELSE ScheduleOutcomes

\* _async_fetch_measurement, by class
Fetch(kind, o) ==
    CASE kind \in {"temperature", "humidity"} -> FetchBase(o)
      [] kind = "power" -> FetchPower(o)
      [] kind \in {"current", "voltage", "energy", "energy_this_month",
                   "energy_last_month"} -> FetchOrNone(o)
      [] kind \in PackageStatusKinds -> FetchStatus(o)
      [] kind = "away_mode" -> FetchAwayMode(o)
      [] kind = "away_from" -> FetchAwayFrom(o)
      [] kind = "away_to" -> FetchAwayTo(o)
      [] kind = "legacy_power" -> FetchLegacyPower(o)
      [] kind \in LegacyStatusKinds -> FetchLegacyStatus(o)
      [] OTHER -> FetchLegacy(o)

----------------------------------------------------------------------------
(* async_update of the entities *)

NewEntity == [available |-> FALSE, state |-> VNone, target |-> VNone, added |-> FALSE]

\* what an update did: the API's answer, what get_measurement_value made of
\* it (for the classes that call it), and the values the entity held before
NoUpdate == [op |-> "start", apiRaised |-> FALSE, fetchRaised |-> FALSE,
             propagated |-> FALSE, notified |-> FALSE,
             o |-> Nothing, gmvCalled |-> FALSE, gmv |-> VNone,
             prev |-> [state |-> VNone, target |-> VNone]]

\* SlimNgenicSensor.async_update (sensors/base.py) and NgenicSensor.async_update
\* (sensor.py): the entity after the update
SensorAfterUpdate(e, f) ==
    IF f.raised
    THEN [e EXCEPT !.available = FALSE]
    ELSE [e EXCEPT !.available = TRUE, !.state = f.val]

\* whether the update calls schedule_update_ha_state
SensorNotifies(e, f) == ~f.raised /\ e.state # f.val /\ e.added

SensorUpdate ==
    /\ ekind \in SensorKinds
    /\ \E o \in OutcomesOf(ekind) :
         LET f == Fetch(ekind, o) IN
         /\ ent' = SensorAfterUpdate(ent, f)
         /\ eout' = [op |-> "update", apiRaised |-> o.kind = "raise",
                     fetchRaised |-> f.raised, propagated |-> FALSE,
                     notified |-> SensorNotifies(ent, f),
                     o |-> o,
                     gmvCalled |-> ekind \in PackageMeasurementKinds,
                     gmv |-> IF ekind \in PackageMeasurementKinds
                             THEN get_measurement_value(o) ELSE VNone,
                     prev |-> [state |-> ent.state, target |-> ent.target]]
    /\ UNCHANGED ekind

\* NgenicTune.async_update: whether the lines after the try block raise
ClimateRoundRaises(cur, room) ==
    \/ cur.kind = "none"
    \/ cur.vs = <<>>
    \/ ~cur.vs[1].ok
    \/ ~room.vs[1].ok

\* NgenicTune.async_update: the entity after the update
ClimateAfterUpdate(e, cur, room) ==
    IF cur.kind = "raise" \/ room.kind = "raise"
    THEN [e EXCEPT !.available = FALSE]
    ELSE IF cur.kind = "none" \/ cur.vs = <<>> \/ ~cur.vs[1].ok
    THEN [e EXCEPT !.available = TRUE]
    ELSE IF ~room.vs[1].ok
    THEN [e EXCEPT !.available = TRUE, !.state = VNum(Round1(cur.vs[1].n))]
    ELSE [e EXCEPT !.available = TRUE,
                   !.state = VNum(Round1(cur.vs[1].n)),
                   !.target = VNum(Round1(room.vs[1].n))]

ClimateUpdate ==
    /\ ekind = "climate"
    /\ \E cur \in MeasurementOutcomes \ {List(<<>>)}, room \in RoomOutcomes :
         /\ cur.kind # "list"
         /\ ent' = ClimateAfterUpdate(ent, cur, room)
         /\ eout' = [op |-> "update",
                     apiRaised |-> cur.kind = "raise" \/ room.kind = "raise",
                     fetchRaised |-> cur.kind = "raise" \/ room.kind = "raise",
                     propagated |-> /\ cur.kind # "raise"
                                    /\ room.kind # "raise"
                                    /\ ClimateRoundRaises(cur, room),
                     notified |-> FALSE,
                     o |-> cur, gmvCalled |-> FALSE, gmv |-> VNone,
                     prev |-> [state |-> ent.state, target |-> ent.target]]
    /\ UNCHANGED ekind

\* the entity is added to hass: self.hass is set from then on
AddedToHass ==
    /\ ~ent.added
    /\ eout.op # "start"
    /\ ent' = [ent EXCEPT !.added = TRUE]
    /\ UNCHANGED <<ekind, eout>>

----------------------------------------------------------------------------
(* hass: tunes, rooms, services and the entities listening to the topic *)

TuneList == <<"t1", "t2">>
TuneIds == {"t1", "t2"}
RoomsOf(t) == IF t = "t1" THEN {"r1"} ELSE {"r2"}
RoomIds == {"r1", "r2"}
RoomArgs == {"r1", "r9"}

SERVICE_SET_ACTIVE_CONTROL == "set_active_control"
SERVICE_SET_AWAY_SCHEDULE == "set_away_schedule"
SERVICE_ACTIVATE_AWAY == "activate_away"
SERVICE_DEACTIVATE_AWAY == "deactivate_away"
Services == {SERVICE_SET_ACTIVE_CONTROL, SERVICE_SET_AWAY_SCHEDULE,
             SERVICE_ACTIVATE_AWAY, SERVICE_DEACTIVATE_AWAY}
ScheduleServices == Services \ {SERVICE_SET_ACTIVE_CONTROL}

EntityIds == {"switch", "away_mode"}
EntityTune(e) == IF e = "away_mode" THEN "t2" ELSE "t1"

\* the start_time and end_time a caller of set_away_schedule passes
ServiceInputs == {<<[t |-> 4, off |-> 2], [t |-> 8, off |-> 0]>>}

NoInput == <<[t |-> 0, off |-> 0], [t |-> 0, off |-> 0]>>
NoCall == [h |-> "none", last |-> "none", raised |-> FALSE, todo |-> <<>>,
           room |-> "", active |-> FALSE, input |-> NoInput]

Ev(e, t) == [ev |-> e, tune |-> t]

NoRead == [done |-> FALSE, inv |-> FALSE, ok |-> FALSE, sch |-> NoSchedule]
NewHassEntity == [state |-> VNone, available |-> FALSE, connected |-> FALSE,
                  sch |-> NoSchedule, read |-> NoRead]

Connected == {e \in EntityIds : hent[e].connected}

\* async_dispatcher_send(hass, UPDATE_SCHEDULE_TOPIC): hass schedules the
\* callback of every entity connected to the topic
DispatcherSend(p) == p \cup Connected

\* tune.async_setpoint_schedule(SETPONT_SCHEDULE_NAME, flag) answered by the
\* API: the schedule built from the response
ReadSchedule(t, invalidate_cache) ==
    NewSchedule(SetpointScheduleJson(AsyncGetBody(tcache[t], tapi[t],
                                                  GetInvalidate(invalidate_cache))),
                clock)

\* the cache of the tune after that call
CacheAfterRead(t, invalidate_cache) ==
    [valid |-> TRUE,
     body |-> AsyncGetBody(tcache[t], tapi[t], GetInvalidate(invalidate_cache))]

----------------------------------------------------------------------------
(* services.py: the service handlers, one tune of the loop at a time *)

\* the change the handler makes to the schedule it read
ServiceChange(h, s, input, c) ==
    CASE h = SERVICE_SET_AWAY_SCHEDULE -> set_schedule(s, input[1], input[2])
      [] h = SERVICE_ACTIVATE_AWAY -> activate_away(s, c)
      [] OTHER -> deactivate_away(s)

SendsAfterReread_NotOnActivate(h) == h \in ScheduleServices \ {SERVICE_ACTIVATE_AWAY}

\* whether the handler sends on UPDATE_SCHEDULE_TOPIC after the tune's
\* schedule was updated and read again
SendsAfterReread(h) == h \in ScheduleServices

\* the handler is called: it asks the client for the tunes
ServiceStart(h) ==
    /\ call.h = "none"
    /\ h \in registered
    /\ calls < MaxCalls
    /\ calls' = calls + 1
    /\ \E ok \in BOOLEAN, rm \in RoomArgs, act \in BOOLEAN, inp \in ServiceInputs :
         /\ ok => clientOpen
         /\ h # SERVICE_SET_ACTIVE_CONTROL => (rm = "r1" /\ act = FALSE)
         /\ IF ok
            THEN /\ call' = [h |-> h, last |-> h, raised |-> FALSE, todo |-> TuneList,
                             room |-> rm, active |-> act, input |-> inp]
                 /\ log' = <<>>
            ELSE \* async_tunes raised: set_active_control logs it, the other
                 \* handlers let it leave the handler
                 /\ call' = [NoCall EXCEPT !.last = h,
                                           !.raised = (h # SERVICE_SET_ACTIVE_CONTROL)]
                 /\ log' = <<Ev("error", "")>>
    /\ UNCHANGED <<tapi, tcache, roomActive, registered, loaded, clientOpen, pend, hent>>

CallAfter_AlwaysStops(abort) == [call EXCEPT !.todo = <<>>, !.h = "none"]

\* the call after one pass of the loop: abort drops the tunes left
CallAfter(abort) ==
    LET rest == IF abort THEN <<>> ELSE Tail(call.todo) IN
    [call EXCEPT !.todo = rest, !.h = IF rest = <<>> THEN "none" ELSE call.h]

PassLog_SendBeforeUpdate(oc, t, sends) ==
    (IF sends THEN <<Ev("send", t)>> ELSE <<>>)
    \o (CASE oc = "read_fails" -> <<Ev("error", t)>>
          [] oc = "update_fails" -> <<Ev("read", t), Ev("change", t), Ev("error", t)>>
          [] oc = "reread_fails" ->
               <<Ev("read", t), Ev("change", t), Ev("update", t), Ev("error", t)>>
          [] OTHER ->
               <<Ev("read", t), Ev("change", t), Ev("update", t), Ev("reread", t)>>)

\* the statements of one pass of a schedule handler's loop that ran, in the
\* order of the code, up to the one that raised
PassLog(oc, t, sends) ==
    (CASE oc = "read_fails" -> <<Ev("error", t)>>
       [] oc = "update_fails" -> <<Ev("read", t), Ev("change", t), Ev("error", t)>>
       [] oc = "reread_fails" ->
            <<Ev("read", t), Ev("change", t), Ev("update", t), Ev("error", t)>>
       [] OTHER ->
            <<Ev("read", t), Ev("change", t), Ev("update", t), Ev("reread", t)>>)
    \o (IF sends THEN <<Ev("send", t)>> ELSE <<>>)

\* set_away_schedule, activate_away, deactivate_away: one tune
ScheduleServiceStep ==
    /\ call.h \in ScheduleServices
    /\ call.todo # <<>>
    /\ LET t == Head(call.todo)
           s1 == ReadSchedule(t, FALSE)
           s2 == ServiceChange(call.h, s1, call.input, clock)
           rq == UpdateRequests(s2)
           api2 == IF rq = <<>> THEN tapi[t] ELSE ApiApply(tapi[t], rq[1])
       IN
       \E oc \in {"ok", "read_fails", "update_fails", "reread_fails"},
          outside \in BOOLEAN :
         /\ oc = "ok" => clientOpen
         /\ oc \in {"ok", "reread_fails"} =>
                \A i \in DOMAIN rq : ApiAccepts(tapi[t], rq[i])
         /\ oc = "update_fails" => rq # <<>>
         \* deactivate_away: the send is either after the try block of the
         \* loop body (outside) or skipped by the exception
         /\ (call.h # SERVICE_DEACTIVATE_AWAY \/ oc = "ok") => ~outside
         /\ tcache' = [tcache EXCEPT ![t] =
                          CASE oc = "read_fails" -> tcache[t]
                            [] oc = "ok" -> [valid |-> TRUE, body |-> api2]
                            [] OTHER -> CacheAfterRead(t, FALSE)]
         /\ tapi' = [tapi EXCEPT ![t] =
                          IF oc \in {"ok", "reread_fails"} THEN api2 ELSE tapi[t]]
         /\ log' = PassLog(oc, t, (oc = "ok" /\ SendsAfterReread(call.h)) \/ outside)
         /\ pend' = IF (oc = "ok" /\ SendsAfterReread(call.h)) \/ outside
                    THEN DispatcherSend(pend) ELSE pend
         /\ call' = CallAfter(call.h = SERVICE_DEACTIVATE_AWAY /\ oc # "ok" /\ ~outside)
    /\ UNCHANGED <<roomActive, registered, loaded, clientOpen, calls, hent>>

\* set_active_control: one tune
ActiveControlStep ==
    /\ call.h = SERVICE_SET_ACTIVE_CONTROL
    /\ call.todo # <<>>
    /\ LET t == Head(call.todo)
           match == call.room \in RoomsOf(t)
       IN
       \E oc \in {"ok", "rooms_fails", "update_fails"} :
         /\ oc = "ok" => clientOpen
         /\ oc = "update_fails" => match
         /\ roomActive' = IF oc = "ok" /\ match
                          THEN [roomActive EXCEPT ![call.room] = call.active]
                          ELSE roomActive
         /\ log' =
               CASE oc = "ok" /\ match -> <<Ev("room_update", t)>>
                 [] oc = "ok" -> <<>>
                 [] OTHER -> <<Ev("error", t)>>
         /\ call' = CallAfter(oc # "ok")
    /\ UNCHANGED <<tapi, tcache, registered, loaded, clientOpen, calls, pend, hent>>

----------------------------------------------------------------------------
(* switch.py and sensors/away.py: the entities listening to the topic *)

SwitchInvalidate_KeepsCache(first_load) == first_load

\* NgenicAwayModeSwitch.async_update: the flag it hands to
\* async_setpoint_schedule
SwitchInvalidate(first_load) == ~first_load

\* the away sensors' _async_fetch_measurement: the flag it hands to
\* async_setpoint_schedule
SensorInvalidate(first_load) == ~first_load

\* NgenicAwayModeSwitch.async_update
SwitchAfterUpdate(e, t, first_load, ok) ==
    LET inv == SwitchInvalidate(first_load)
        s == ReadSchedule(t, inv)
    IN
    IF ok
    THEN [e EXCEPT !.sch = s,
                   !.state = VStr(IF s.active THEN "on" ELSE "off"),
                   !.read = [done |-> TRUE, inv |-> inv, ok |-> TRUE, sch |-> s]]
    ELSE [e EXCEPT !.read = [done |-> TRUE, inv |-> inv, ok |-> FALSE,
                             sch |-> NoSchedule]]

\* SlimNgenicSensor.async_update of an away sensor
AwaySensorAfterUpdate(e, kind, t, ok) ==
    LET inv == SensorInvalidate(FALSE)
        s == ReadSchedule(t, inv)
        f == Fetch(kind, IF ok THEN Sched(s) ELSE Raise)
    IN
    [SensorAfterUpdate(e, f) EXCEPT
        !.read = [done |-> TRUE, inv |-> inv, ok |-> ok,
                  sch |-> IF ok THEN s ELSE NoSchedule]]

EntityAfterUpdate(id, first_load, ok) ==
    IF id = "switch"
    THEN SwitchAfterUpdate(hent[id], EntityTune(id), first_load, ok)
    ELSE AwaySensorAfterUpdate(hent[id], id, EntityTune(id), ok)

\* switch.py async_setup_entry: async_update(True), then hass updates the
\* entity once more before adding it (update_before_add=True)
SwitchAfterSetup(e, t, ok1, ok2) ==
    SwitchAfterUpdate(SwitchAfterUpdate(e, t, TRUE, ok1), t, FALSE, ok2)

\* the platform creates the entity, updates it and adds it to hass, where
\* async_added_to_hass connects it to the topic
AddEntity(id) ==
    /\ loaded
    /\ ~hent[id].connected
    /\ \E ok1 \in BOOLEAN, ok2 \in BOOLEAN :
         LET t == EntityTune(id) IN
         /\ (ok1 \/ ok2) => clientOpen
         /\ id # "switch" => ok1 = ok2
         /\ hent' = [hent EXCEPT ![id] =
                        [(IF id = "switch"
                          THEN SwitchAfterSetup(hent[id], t, ok1, ok2)
                          ELSE AwaySensorAfterUpdate(hent[id], id, t, ok2))
                         EXCEPT !.connected = TRUE]]
         /\ tcache' = [tcache EXCEPT ![t] =
                          IF ok2 THEN CacheAfterRead(t, TRUE)
                          ELSE IF ok1 THEN CacheAfterRead(t, FALSE)
                          ELSE tcache[t]]
    /\ UNCHANGED <<tapi, roomActive, registered, loaded, clientOpen, call, calls,
                   log, pend>>

ToggleChange_Inverted(s, active, c) ==
    IF active THEN deactivate_away(s) ELSE activate_away(s, c)

\* NgenicAwayModeSwitch._toggle_away: the change to the loaded schedule
ToggleChange(s, active, c) ==
    IF active THEN activate_away(s, c) ELSE deactivate_away(s)

\* async_turn_on / async_turn_off of the switch of tune t1
SwitchToggle(active) ==
    /\ hent["switch"].connected
    /\ call.h = "none"
    /\ calls < MaxCalls
    /\ calls' = calls + 1
    /\ LET e == hent["switch"]
           t == EntityTune("switch")
           s2 == ToggleChange(e.sch, active, clock)
           rq == UpdateRequests(s2)
           name == IF active THEN "turn_on" ELSE "turn_off"
       IN
       IF ~e.sch.exists
       THEN \* _schedule is None
            /\ call' = [NoCall EXCEPT !.last = name]
            /\ log' = <<Ev("skip", t)>>
            /\ UNCHANGED <<tapi, pend, hent>>
       ELSE \E ok \in BOOLEAN :
              /\ (ok /\ rq # <<>>) => clientOpen
              /\ ok => \A i \in DOMAIN rq : ApiAccepts(tapi[t], rq[i])
              /\ ~ok => rq # <<>>
              /\ hent' = [hent EXCEPT !["switch"].sch = s2]
              /\ tapi' = IF ok /\ rq # <<>>
                         THEN [tapi EXCEPT ![t] = ApiApply(tapi[t], rq[1])]
                         ELSE tapi
              /\ log' = IF ok
                        THEN <<Ev("change", t), Ev("update", t), Ev("send", t)>>
                        ELSE <<Ev("change", t), Ev("error", t)>>
              /\ pend' = IF ok THEN DispatcherSend(pend) ELSE pend
              /\ call' = [NoCall EXCEPT !.last = name, !.raised = ~ok]
    /\ UNCHANGED <<tcache, roomActive, registered, loaded, clientOpen>>

\* the entity is removed from hass: the async_on_remove hook disconnects it
RemoveEntity(id) ==
    /\ hent[id].connected
    /\ hent' = [hent EXCEPT ![id].connected = FALSE]
    /\ UNCHANGED <<tapi, tcache, roomActive, registered, loaded, clientOpen, call,
                   calls, log, pend>>

\* hass runs the callback the dispatcher scheduled: async_update of the
\* switch, _force_update of a sensor
Callback(id) ==
    /\ id \in pend
    /\ pend' = pend \ {id}
    /\ \E ok \in BOOLEAN :
         /\ ok => clientOpen
         /\ hent' = [hent EXCEPT ![id] = EntityAfterUpdate(id, FALSE, ok)]
         /\ tcache' = IF ok
                      THEN [tcache EXCEPT ![EntityTune(id)] =
                               CacheAfterRead(EntityTune(id), hent'[id].read.inv)]
                      ELSE tcache
    /\ UNCHANGED <<tapi, roomActive, registered, loaded, clientOpen, call, calls, log>>

----------------------------------------------------------------------------
(* __init__.py: the config entry *)

\* the services async_unload_entry removes
UnloadRemoves == {SERVICE_SET_ACTIVE_CONTROL}

\* async_setup_entry
SetupEntry ==
    /\ ~loaded
    /\ loaded' = TRUE
    /\ clientOpen' = TRUE
    /\ registered' = registered \cup Services
    /\ hent' = [e \in EntityIds |-> NewHassEntity]
    /\ UNCHANGED <<tapi, tcache, roomActive, call, calls, log, pend>>

\* async_unload_entry
UnloadEntry ==
    /\ loaded
    /\ loaded' = FALSE
    /\ clientOpen' = FALSE
    /\ registered' = registered \ UnloadRemoves
    /\ hent' = [e \in EntityIds |-> [hent[e] EXCEPT !.connected = FALSE]]
    /\ UNCHANGED <<tapi, tcache, roomActive, call, calls, log, pend>>

----------------------------------------------------------------------------
(* climate.py: async_setup_entry *)

\* what the API may hold in a tune's roomToControlUuid: null, the empty
\* string, a room of the tune, a room that is not among tune["rooms"]
RoomToControlValues == {"null", "", "r1", "r3"}

\* what the API may hold in a room's activeControl: true, false, or a value
\* that is truthy without being True
ActiveControlValues == {"True", "False", "1"}

TuneRooms == <<"r1", "r2">>

\* if tune["roomToControlUuid"]:
Truthy(u) == u \notin {"null", ""}

IsTrue_Truthy(v) == v \in {"True", "1"}

\* room_data["activeControl"] is True
IsTrue(v) == v = "True"

RECURSIVE ActiveControlRooms(_)
ActiveControlRooms(rooms) ==
    IF rooms = <<>> THEN <<>>
    ELSE (IF IsTrue(Head(rooms).activeControl) THEN <<Head(rooms).uuid>> ELSE <<>>)
         \o ActiveControlRooms(Tail(rooms))

\* control_room_uuids of a tune
ControlRoomUuids(tune) ==
    IF Truthy(tune.roomToControlUuid)
    THEN <<tune.roomToControlUuid>>
    ELSE ActiveControlRooms(tune.rooms)

RECURSIVE DevicesFor(_, _)
DevicesFor(t, uuids) ==
    IF uuids = <<>> THEN <<>>
    ELSE <<[tune |-> t, room |-> Head(uuids)]>> \o DevicesFor(t, Tail(uuids))

NoSetup == [phase |-> "idle", todo |-> <<>>, devices |-> <<>>, added |-> <<>>]

\* the platform is set up: the client lists the tunes
ClimateSetupStart ==
    /\ csetup.phase = "idle"
    /\ \E ok \in BOOLEAN :
         csetup' = IF ok
                   THEN [csetup EXCEPT !.phase = "running", !.todo = TuneList]
                   ELSE [csetup EXCEPT !.phase = "failed"]
    /\ UNCHANGED ctunes

\* one tune of the loop: the tune is fetched, its control rooms chosen, and
\* for each a room and node are fetched and a device is made and updated;
\* an exception of any call leaves async_setup_entry
ClimateSetupTune ==
    /\ csetup.phase = "running"
    /\ csetup.todo # <<>>
    /\ LET t == Head(csetup.todo) IN
       \E ok \in BOOLEAN :
         csetup' = IF ok
                   THEN [csetup EXCEPT
                            !.todo = Tail(csetup.todo),
                            !.devices = csetup.devices
                                \o DevicesFor(t, ControlRoomUuids(ctunes[t]))]
                   ELSE [csetup EXCEPT !.phase = "failed"]
    /\ UNCHANGED ctunes

\* async_add_entities(devices)
ClimateSetupAdd ==
    /\ csetup.phase = "running"
    /\ csetup.todo = <<>>
    /\ csetup' = [csetup EXCEPT !.phase = "done", !.added = csetup.devices]
    /\ UNCHANGED ctunes

----------------------------------------------------------------------------
(* config_flow.py and async_setup of __init__.py *)

Tokens == {"tokA", "tokB"}
FlowIds == {"user1", "user2", "import"}

NoFlow == [phase |-> "new", token |-> "", unique_id |-> "none", error |-> ""]

\* configured_instances(hass)
configured_instances(es) == {es[i].token : i \in DOMAIN es}

\* the flow shows the form, with or without an error
ShowForm(f, error) == [f EXCEPT !.phase = "form", !.error = error]

\* async_set_unique_id: another flow in progress already holds the unique id
UniqueIdInProgress(fs, id, uid) ==
    \E g \in FlowIds \ {id} :
        fs[g].phase \in {"form", "awaiting"} /\ fs[g].unique_id = uid

UniqueIdConfigured_Never(es, uid) == FALSE

\* _abort_if_unique_id_configured: an entry of the domain holds the unique id
UniqueIdConfigured(es, uid) == \E i \in DOMAIN es : es[i].unique_id = uid

\* async_step_user with user_input, up to the await of async_tunes
StepUserBegin(f, token, es) ==
    IF token = "" THEN ShowForm(f, "missing_token")
    ELSE IF token \in configured_instances(es) THEN ShowForm(f, "already_configured")
    ELSE [f EXCEPT !.phase = "awaiting", !.token = token, !.error = ""]

\* async_setup: stores the YAML config and starts an import flow unless the
\* token is configured
AsyncSetup ==
    /\ ~setupRan
    /\ setupRan' = TRUE
    /\ flows' = IF yamlToken # "none" /\ yamlToken \notin configured_instances(entries)
                THEN [flows EXCEPT !["import"] =
                         [NoFlow EXCEPT !.phase = "scheduled", !.token = yamlToken]]
                ELSE flows
    /\ UNCHANGED <<entries, yamlToken, submits>>

\* the task async_setup created runs: async_step_import hands the data to
\* async_step_user
ImportFlowRuns ==
    /\ flows["import"].phase = "scheduled"
    /\ flows' = [flows EXCEPT !["import"] =
                    StepUserBegin(flows["import"], flows["import"].token, entries)]
    /\ UNCHANGED <<entries, yamlToken, setupRan, submits>>

\* the user starts a flow: async_step_user without user_input shows the form
UserFlowStarts(id) ==
    /\ id # "import"
    /\ flows[id].phase = "new"
    /\ flows' = [flows EXCEPT ![id] = ShowForm(flows[id], "")]
    /\ UNCHANGED <<entries, yamlToken, setupRan, submits>>

\* the user submits the form: async_step_user with user_input
FormSubmitted(id) ==
    /\ flows[id].phase = "form"
    /\ submits < MaxSubmits
    /\ submits' = submits + 1
    /\ \E token \in Tokens \cup {""} :
         /\ id = "import" => token = flows[id].token
         /\ flows' = [flows EXCEPT ![id] = StepUserBegin(flows[id], token, entries)]
    /\ UNCHANGED <<entries, yamlToken, setupRan>>

\* async_tunes has answered: the rest of async_step_user
TunesAnswered(id) ==
    /\ flows[id].phase = "awaiting"
    /\ \E answer \in {"client_exception", "exception", "no_tunes", "tunes"} :
         LET f == flows[id]
             uid == f.token
         IN
         CASE answer = "client_exception" ->
                /\ flows' = [flows EXCEPT ![id] = ShowForm(f, "bad_token")]
                /\ UNCHANGED entries
           [] answer = "exception" ->
                /\ flows' = [flows EXCEPT ![id] = ShowForm(f, "unknown_error")]
                /\ UNCHANGED entries
           [] answer = "no_tunes" ->
                /\ flows' = [flows EXCEPT ![id] = ShowForm(f, "no_tunes")]
                /\ UNCHANGED entries
           [] OTHER ->
                IF UniqueIdInProgress(flows, id, uid)
                THEN \* AbortFlow raised by async_set_unique_id, caught below
                     /\ flows' = [flows EXCEPT ![id] = ShowForm(f, "unknown_error")]
                     /\ UNCHANGED entries
                ELSE IF UniqueIdConfigured(entries, uid)
                THEN \* AbortFlow raised by _abort_if_unique_id_configured
                     /\ flows' = [flows EXCEPT ![id] =
                                     [ShowForm(f, "unknown_error") EXCEPT
                                         !.unique_id = uid]]
                     /\ UNCHANGED entries
                ELSE /\ flows' = [flows EXCEPT ![id] =
                                     [f EXCEPT !.phase = "created", !.unique_id = uid]]
                     /\ entries' = Append(entries, [token |-> f.token,
                                                    unique_id |-> uid])
    /\ UNCHANGED <<yamlToken, setupRan, submits>>

----------------------------------------------------------------------------
(* sensors package: the entities created for a node and their unique ids *)

NodeUuids == {"n1", "n2"}

\* the sensor classes that take a measurement type, with the type's name
SensorClasses ==
    {[cls |-> "NgenicTempSensor", mtype |-> "TEMPERATURE"],
     [cls |-> "NgenicHumiditySensor", mtype |-> "HUMIDITY"],
     [cls |-> "NgenicPowerSensor", mtype |-> "POWER_KW"],
     [cls |-> "NgenicEnergySensor", mtype |-> "ENERGY_KWH"],
     [cls |-> "NgenicEnergyThisMonthSensor", mtype |-> "ENERGY_KWH"],
     [cls |-> "NgenicEnergyLastMonthSensor", mtype |-> "ENERGY_KWH"],
     [cls |-> "NgenicBatterySensor", mtype |-> "BATTERY"],
     [cls |-> "NgenicSignalStrengthSensor", mtype |-> "SIGNAL_STRENGTH"]}

\* NgenicSensor.__init__: the unique_id handed to SlimNgenicSensor.__init__
BaseUniqueId(node, mtype) == node \o "-" \o mtype \o "-sensor"

\* what the constructor of the class leaves in _attr_unique_id
AttrUniqueId(cls, node, mtype) ==
    CASE cls = "NgenicEnergyThisMonthSensor" ->
            node \o "-" \o mtype \o "-sensor-this-month"
      [] cls = "NgenicEnergyLastMonthSensor" ->
            node \o "-" \o mtype \o "-sensor-last-month"
      [] OTHER -> "unset"

\* the constructor of a sensor class
NewSensor(c, node) ==
    [cls |-> c.cls, node |-> node, mtype |-> c.mtype,
     _unique_id |-> BaseUniqueId(node, c.mtype),
     _attr_unique_id |-> AttrUniqueId(c.cls, node, c.mtype)]

\* SlimNgenicSensor.unique_id, the property every sensor class inherits
unique_id(sensor) == sensor._unique_id

\* the platform creates a sensor for a node
CreateSensor ==
    /\ Cardinality(created) < MaxSensors
    /\ \E c \in SensorClasses, node \in NodeUuids :
         /\ NewSensor(c, node) \notin created
         /\ created' = created \cup {NewSensor(c, node)}

----------------------------------------------------------------------------
(* ngenicpy Node: the cache of the node's measurement types *)

MeasurementTypes == {"TEMPERATURE", "POWER_KW", "ENERGY_KWH"}

\* a list of measurement types, or None
NoTypes == [none |-> TRUE, types |-> {}]
TypeList(ts) == [none |-> FALSE, types |-> ts]

\* Node.__init__, for a node whose measurement types at the API are apiTypes
NewNode(apiTypes) ==
    [_measurementTypes |-> NoTypes, apiTypes |-> apiTypes,
     got |-> [valid |-> FALSE, body |-> {}],
     typeReqs |-> 0, otherReqs |-> 0, ops |-> 0, lastOp |-> "init",
     ret |-> NoTypes, first |-> NoTypes, later |-> 0]

\* "not self._measurementTypes": None and the empty list are both falsy
NotCached(mt) == mt.none \/ mt.types = {}

\* whether async_measurement_types on node n sends a request to the API:
\* _async_get(url) answers from the response it kept for the URL, if any
TypesRequested(n) == NotCached(n._measurementTypes) /\ ~n.got.valid

\* the body of async_measurement_types on node n; ok is the request's outcome
TypesAfter(n, ok) ==
    IF ~NotCached(n._measurementTypes) THEN n
    ELSE IF ~TypesRequested(n)
    THEN [n EXCEPT !._measurementTypes =
                       TypeList(AsyncGetBody(n.got, n.apiTypes, FALSE))]
    ELSE [n EXCEPT !.typeReqs = @ + 1,
                   !.later = IF n.first.none THEN @ ELSE @ + 1,
                   !.got = IF ok THEN [valid |-> TRUE, body |-> n.apiTypes] ELSE @,
                   !._measurementTypes = IF ok THEN TypeList(n.apiTypes) ELSE @]

\* whether that call raises: only a request can fail
TypesRaises(n, ok) == TypesRequested(n) /\ ~ok

\* the list async_measurements keeps after removing ENERGY_KWH from the
\* list async_measurement_types returned, which is the cached list itself
LatestTypes(mt) == TypeList(mt.types \ {"ENERGY_KWH"})

\* async_measurement_types is called on the node
AsyncMeasurementTypes ==
    /\ theNode.ops < MaxNodeOps
    /\ \E ok \in BOOLEAN :
         LET n == TypesAfter(theNode, ok)
             raised == TypesRaises(theNode, ok)
             r == IF raised THEN NoTypes ELSE n._measurementTypes
         IN theNode' = [n EXCEPT !.ops = @ + 1,
                                 !.lastOp = "async_measurement_types",
                                 !.ret = r,
                                 !.first = IF @.none THEN r ELSE @]

\* async_measurements is called on the node
AsyncMeasurements ==
    /\ theNode.ops < MaxNodeOps
    /\ \E ok \in BOOLEAN :
         LET n == TypesAfter(theNode, ok)
             raised == TypesRaises(theNode, ok)
             kept == LatestTypes(n._measurementTypes)
         IN theNode' =
              IF raised
              THEN [n EXCEPT !.ops = @ + 1, !.lastOp = "async_measurements"]
              ELSE [n EXCEPT !.ops = @ + 1, !.lastOp = "async_measurements",
                             !._measurementTypes = kept,
                             !.otherReqs = @ + Cardinality(kept.types)]

\* async_measurement is called on the node for one type
AsyncMeasurement ==
    /\ theNode.ops < MaxNodeOps
    /\ theNode' = [theNode EXCEPT !.ops = @ + 1, !.lastOp = "async_measurement",
                                  !.otherReqs = @ + 1]

\* async_status is called on the node
AsyncStatus ==
    /\ theNode.ops < MaxNodeOps
    /\ theNode' = [theNode EXCEPT !.ops = @ + 1, !.lastOp = "async_status",
                                  !.otherReqs = @ + 1]

----------------------------------------------------------------------------
(* Specifications *)

SchedIdle ==
    /\ clock = 0
    /\ api = <<>>
    /\ cache = NoCache
    /\ sched = NoSchedule
    /\ lastGet = NoGet
    /\ reqs = <<>>
    /\ writes = 0
    /\ lastOp = "start"

CliIdle ==
    /\ ctunes = [t \in TuneIds |->
                    [roomToControlUuid |-> "null",
                     rooms |-> <<[uuid |-> "r1", activeControl |-> "False"],
                                 [uuid |-> "r2", activeControl |-> "False"]>>]]
    /\ csetup = NoSetup

EntIdle ==
    /\ ekind = "none"
    /\ ent = NewEntity
    /\ eout = NoUpdate
    /\ CliIdle

NodeIdle ==
    /\ created = {}
    /\ theNode = NewNode({})

FlowIdle ==
    /\ entries = <<>>
    /\ flows = [id \in FlowIds |-> NoFlow]
    /\ yamlToken = "none"
    /\ setupRan = FALSE
    /\ submits = 0

SvcIdle ==
    /\ FlowIdle
    /\ NodeIdle
    /\ tapi = [t \in TuneIds |-> <<>>]
    /\ tcache = [t \in TuneIds |-> NoCache]
    /\ roomActive = [r \in RoomIds |-> FALSE]
    /\ registered = {}
    /\ loaded = FALSE
    /\ clientOpen = FALSE
    /\ call = NoCall
    /\ calls = 0
    /\ log = <<>>
    /\ pend = {}
    /\ hent = [e \in EntityIds |-> NewHassEntity]

\* the schedule of one tune: read, changed, sent to the API, as time passes
SchedInit ==
    /\ clock = 0
    /\ api \in NarrowApis
    /\ cache = NoCache
    /\ sched = NoSchedule
    /\ lastGet = NoGet
    /\ reqs = <<>>
    /\ writes = 0
    /\ lastOp = "start"
    /\ EntIdle
    /\ SvcIdle

SchedNext ==
    /\ \/ Tick
       \/ \E inv \in BOOLEAN : AsyncSetpointSchedule(inv)
       \/ ActivateAway
       \/ DeactivateAway
       \/ SetSchedule
       \/ ScheduleAsyncUpdate
    /\ UNCHANGED <<entVars, svcVars>>

SpecSchedule == SchedInit /\ [][SchedNext]_vars

\* the construction of a schedule from every kind of API JSON, at every time
ConstructInit ==
    /\ clock = 0
    /\ api \in WideApis
    /\ cache = NoCache
    /\ sched = NoSchedule
    /\ lastGet = NoGet
    /\ reqs = <<>>
    /\ writes = 0
    /\ lastOp = "start"
    /\ EntIdle
    /\ SvcIdle

ConstructNext ==
    /\ \/ Tick
       \/ \E inv \in BOOLEAN : AsyncSetpointSchedule(inv)
    /\ UNCHANGED <<entVars, svcVars>>

SpecConstruct == ConstructInit /\ [][ConstructNext]_vars

\* one entity of each class, updated again and again
EntInit ==
    /\ ekind \in Kinds
    /\ ent = NewEntity
    /\ eout = NoUpdate
    /\ CliIdle
    /\ SchedIdle
    /\ SvcIdle

EntNext ==
    /\ \/ SensorUpdate
       \/ ClimateUpdate
       \/ AddedToHass
    /\ UNCHANGED <<schedVars, svcVars, cliVars>>

SpecEntities == EntInit /\ [][EntNext]_vars

\* the climate platform is set up for two tunes of two rooms each
CliInit ==
    /\ ctunes \in [TuneIds ->
                     {[roomToControlUuid |-> u,
                       rooms |-> <<[uuid |-> TuneRooms[1], activeControl |-> a1],
                                   [uuid |-> TuneRooms[2], activeControl |-> a2]>>] :
                        u \in RoomToControlValues,
                        a1 \in ActiveControlValues, a2 \in ActiveControlValues}]
    /\ csetup = NoSetup
    /\ ekind = "none"
    /\ ent = NewEntity
    /\ eout = NoUpdate
    /\ SchedIdle
    /\ SvcIdle

CliNext ==
    /\ \/ ClimateSetupStart
       \/ ClimateSetupTune
       \/ ClimateSetupAdd
    /\ UNCHANGED <<schedVars, svcVars, sensVars>>

SpecClimateSetup == CliInit /\ [][CliNext]_vars

\* the config entry, the service calls and the entities of two tunes
SvcInit ==
    /\ tapi \in {[t \in TuneIds |-> IF t = "t1" THEN a ELSE <<>>] :
                    a \in {<<>>, <<ApiSchedule(SETPONT_SCHEDULE_NAME, "u1",
                                               Iso(2, 0), Iso(4, 0))>>}}
    /\ tcache = [t \in TuneIds |-> NoCache]
    /\ roomActive = [r \in RoomIds |-> FALSE]
    /\ registered = {}
    /\ loaded = FALSE
    /\ clientOpen = FALSE
    /\ call = NoCall
    /\ calls = 0
    /\ log = <<>>
    /\ pend = {}
    /\ hent = [e \in EntityIds |-> NewHassEntity]
    /\ FlowIdle
    /\ NodeIdle
    /\ clock = 2
    /\ api = <<>>
    /\ cache = NoCache
    /\ sched = NoSchedule
    /\ lastGet = NoGet
    /\ reqs = <<>>
    /\ writes = 0
    /\ lastOp = "start"
    /\ EntIdle

\* hass runs a scheduled callback; nothing else changes
CallbackRuns(id) == Callback(id) /\ UNCHANGED <<schedVars, entVars, flowVars, nodeVars>>

SvcNext ==
    /\ \/ SetupEntry
       \/ UnloadEntry
       \/ \E h \in Services : ServiceStart(h)
       \/ ScheduleServiceStep
       \/ ActiveControlStep
       \/ \E id \in EntityIds : AddEntity(id)
       \/ \E id \in EntityIds : RemoveEntity(id)
       \/ \E id \in EntityIds : CallbackRuns(id)
       \/ \E active \in BOOLEAN : SwitchToggle(active)
    /\ UNCHANGED <<schedVars, entVars, flowVars, nodeVars>>

SpecServices == SvcInit /\ [][SvcNext]_vars

SpecServicesFair ==
    SpecServices /\ \A id \in EntityIds : WF_vars(CallbackRuns(id))

\* user and import config flows over a domain that may hold an entry made
\* before unique ids were set
FlowInit ==
    /\ entries \in {<<>>, <<[token |-> "tokA", unique_id |-> "none"]>>}
    /\ flows = [id \in FlowIds |-> NoFlow]
    /\ yamlToken \in {"none", "tokA", "tokB"}
    /\ setupRan = FALSE
    /\ submits = 0
    /\ tapi = [t \in TuneIds |-> <<>>]
    /\ tcache = [t \in TuneIds |-> NoCache]
    /\ roomActive = [r \in RoomIds |-> FALSE]
    /\ registered = {}
    /\ loaded = FALSE
    /\ clientOpen = FALSE
    /\ call = NoCall
    /\ calls = 0
    /\ log = <<>>
    /\ pend = {}
    /\ hent = [e \in EntityIds |-> NewHassEntity]
    /\ NodeIdle
    /\ SchedIdle
    /\ EntIdle

FlowNext ==
    /\ \/ AsyncSetup
       \/ ImportFlowRuns
       \/ \E id \in FlowIds : UserFlowStarts(id)
       \/ \E id \in FlowIds : FormSubmitted(id)
       \/ \E id \in FlowIds : TunesAnswered(id)
    /\ UNCHANGED <<schedVars, entVars, hassVars, nodeVars>>

SpecConfigFlow == FlowInit /\ [][FlowNext]_vars

\* the sensor platform creates sensors for two nodes
NodeInit ==
    /\ created = {}
    /\ theNode = NewNode({})
    /\ FlowIdle
    /\ tapi = [t \in TuneIds |-> <<>>]
    /\ tcache = [t \in TuneIds |-> NoCache]
    /\ roomActive = [r \in RoomIds |-> FALSE]
    /\ registered = {}
    /\ loaded = FALSE
    /\ clientOpen = FALSE
    /\ call = NoCall
    /\ calls = 0
    /\ log = <<>>
    /\ pend = {}
    /\ hent = [e \in EntityIds |-> NewHassEntity]
    /\ SchedIdle
    /\ EntIdle

NodeNext ==
    /\ CreateSensor
    /\ UNCHANGED <<schedVars, entVars, hassVars, flowVars, theNode>>

SpecNodes == NodeInit /\ [][NodeNext]_vars

\* one node, whatever measurement types the API has for it, and any order of
\* its operations
NodeCacheInit ==
    /\ theNode \in {NewNode(ts) : ts \in SUBSET MeasurementTypes}
    /\ created = {}
    /\ FlowIdle
    /\ tapi = [t \in TuneIds |-> <<>>]
    /\ tcache = [t \in TuneIds |-> NoCache]
    /\ roomActive = [r \in RoomIds |-> FALSE]
    /\ registered = {}
    /\ loaded = FALSE
    /\ clientOpen = FALSE
    /\ call = NoCall
    /\ calls = 0
    /\ log = <<>>
    /\ pend = {}
    /\ hent = [e \in EntityIds |-> NewHassEntity]
    /\ SchedIdle
    /\ EntIdle

NodeCacheNext ==
    /\ \/ AsyncMeasurementTypes
       \/ AsyncMeasurements
       \/ AsyncMeasurement
       \/ AsyncStatus
    /\ UNCHANGED <<schedVars, entVars, hassVars, flowVars, created>>

SpecNodeCache == NodeCacheInit /\ [][NodeCacheNext]_vars

----------------------------------------------------------------------------
(* Claims about the setpoint schedule *)

InRange(json, c) ==
    LET now == (c \div TicksPerMinute) * TicksPerMinute IN
    /\ json.startTime.kind = "iso"
    /\ json.endTime.kind = "iso"
    /\ json.startTime.t - json.startTime.off <= now
    /\ now < json.endTime.t - json.endTime.off

\* C1: a SetpointSchedule built from API JSON is active exactly when both
\* startTime and endTime are present and parse and start <= now < end, with
\* now the current UTC time truncated to the minute.
C1_ActiveIffInRangeAtConstruction ==
    lastOp = "init" => (sched.active <=> InRange(sched.json, clock))

\* a schedule was just built, half a minute into a minute, from a start time
\* with a UTC offset, and is active
C1_Witness ==
    /\ lastOp = "init"
    /\ sched.active
    /\ clock % TicksPerMinute # 0
    /\ sched.json.startTime.off # 0

\* C2 as stated: in every reachable state an active schedule has a start and
\* an end time and the current time lies in [start_time(), end_time()).
C2_ActiveOnlyInRange ==
    (sched.exists /\ sched.active) => InRange(sched.json, clock)

\* C2 amended: an active schedule has a start and an end time that parse, and
\* the current time lies in [start_time(), end_time()) right after the
\* construction and right after activate_away; set_schedule and the passage
\* of time leave the flag set whatever the range.
C2_ActiveHasRange ==
    (sched.exists /\ sched.active) =>
        /\ sched.json.startTime.kind = "iso"
        /\ sched.json.endTime.kind = "iso"
        /\ lastOp \in {"init", "activate_away"} => InRange(sched.json, clock)

\* an active schedule whose range does not hold the current time
C2_Witness ==
    /\ sched.exists
    /\ sched.active
    /\ lastOp \in {"tick", "set_schedule"}
    /\ ~InRange(sched.json, clock)

\* C7: SetpointSchedule.async_update issues at most one request, chosen by
\* (active, has uuid): nothing, DELETE of the schedule, PUT to the schedule or
\* POST to the collection.
C7_OneRequestByActiveAndUuid ==
    lastOp \in {"update_ok", "update_failed"} =>
        LET u == sched.json.uuid IN
        /\ Len(reqs) <= 1
        /\ (~sched.active /\ u = NoUuid) => reqs = <<>>
        /\ (~sched.active /\ u # NoUuid) =>
              (Len(reqs) = 1 /\ reqs[1].method = "DELETE" /\ reqs[1].uuid = u)
        /\ (sched.active /\ u # NoUuid) =>
              (Len(reqs) = 1 /\ reqs[1].method = "PUT" /\ reqs[1].uuid = u
                  /\ reqs[1].body = sched.json)
        /\ (sched.active /\ u = NoUuid) =>
              (Len(reqs) = 1 /\ reqs[1].method = "POST" /\ reqs[1].uuid = NoUuid
                  /\ reqs[1].body = sched.json)

\* an inactive schedule with a uuid was just deleted
C7_Witness ==
    /\ lastOp = "update_ok"
    /\ ~sched.active
    /\ sched.json.uuid # NoUuid
    /\ reqs # <<>>

\* C8: Tune.async_setpoint_schedule returns the first schedule of the
\* response named SETPONT_SCHEDULE_NAME, else a new inactive local schedule
\* (that name, autoTune, lowestSetpoint 12, no uuid, no start or end time);
\* with invalidate_cache the response is the API's, not the cache's.
C8_FirstNamedOrDefault ==
    lastOp = "init" =>
        LET body == lastGet.body
            idx == {i \in DOMAIN body : body[i].name = SETPONT_SCHEDULE_NAME}
        IN
        /\ idx # {} => \E i \in idx : /\ \A j \in idx : i <= j
                                      /\ sched.json = body[i]
        /\ idx = {} =>
              /\ sched.json.name = SETPONT_SCHEDULE_NAME
              /\ sched.json.autoTune = TRUE
              /\ sched.json.lowestSetpoint = 12
              /\ sched.json.uuid = NoUuid
              /\ sched.json.startTime.kind = "absent"
              /\ sched.json.endTime.kind = "absent"
              /\ ~sched.active
        /\ lastGet.inv => body = api

\* the schedule was just read with invalidate_cache while the cache held an
\* older response, and two schedules of the response have the name
C8_Witness ==
    /\ lastOp = "init"
    /\ lastGet.inv
    /\ lastGet.stale
    /\ Len(lastGet.body) > 0

\* the schedule was just read and no schedule of the response had the name
C8_WitnessDefault ==
    /\ lastOp = "init"
    /\ \A i \in DOMAIN lastGet.body : lastGet.body[i].name # SETPONT_SCHEDULE_NAME

----------------------------------------------------------------------------
(* Claims about the entities' updates *)

\* C3: async_update of a sensor or climate entity never propagates an
\* exception; it ends with available = False if fetching raised and with
\* available = True if fetching succeeded, so that available is True only
\* after a successful update and False before the first one.
C3_UpdateNeverPropagates ==
    /\ ~eout.propagated
    /\ eout.op = "update" => (ent.available <=> ~eout.fetchRaised)
    /\ eout.op = "start" => ~ent.available

\* C4: when the API request of a sensor of the sensors package raises during
\* async_update, the sensor is unavailable at the end of that update.
C4_ApiFailureMarksUnavailable ==
    (ekind \in PackageKinds /\ eout.op = "update" /\ eout.apiRaised)
        => ~ent.available

----------------------------------------------------------------------------
(* Claims about the services, the topic and the config entry *)

HasEv(l, e) == \E i \in DOMAIN l : l[i].ev = e

\* a handler has just finished one pass of its loop
PassDone == call.todo # <<>> /\ call'.todo # call.todo

\* C5 as stated: every handler that mutates a remote resource sends on
\* UPDATE_SCHEDULE_TOPIC after the mutation succeeded; a pass that updated
\* the schedule or the room has sent.
C5_SendAfterEveryMutation ==
    (HasEv(log, "update") \/ HasEv(log, "room_update")) => HasEv(log, "send")

\* C5 amended: set_away_schedule, activate_away and deactivate_away send on
\* the topic for a tune once its schedule was updated and read again with
\* the cache invalidated, and the send schedules the callback of every
\* connected entity; set_active_control updates the room and never sends.
C5_SendAfterRevalidatedMutation ==
    [][PassDone =>
         /\ HasEv(log', "reread") =>
               /\ log'[Len(log')].ev = "send"
               /\ \E i \in DOMAIN log' : log'[i].ev = "update" /\ i < Len(log')
               /\ Connected \subseteq pend'
         /\ call.h = SERVICE_SET_ACTIVE_CONTROL =>
               /\ ~HasEv(log', "send")
               /\ pend' = pend]_vars

C5_Witness ==
    /\ call.last \in ScheduleServices
    /\ HasEv(log, "reread")
    /\ log[Len(log)].ev = "send"
    /\ pend # {}

\* the state an entity shows for a schedule
EntityStateOf(id, s) ==
    IF id = "switch"
    THEN VStr(IF s.active THEN "on" ELSE "off")
    ELSE VStr(IF s.active THEN "Active" ELSE "Inactive")

\* the schedule the API holds for the tune of the entity
ScheduleAtApi(id) ==
    NewSchedule(SetpointScheduleJson(tapi[EntityTune(id)]), clock)

\* C6: after a send on UPDATE_SCHEDULE_TOPIC every connected away sensor
\* and switch eventually runs its callback; the callback reads the schedule
\* with the cache invalidated and, when the read succeeds, the entity holds
\* the state of the schedule the API holds (switch: active; away-mode
\* sensor: Active/Inactive); an entity that is not connected is not
\* scheduled by a send.
C6_CallbackRereadsFresh ==
    /\ \A id \in EntityIds : (id \in pend) ~> (id \notin pend)
    /\ [][\A id \in EntityIds :
            (id \in pend /\ id \notin pend') =>
                /\ hent'[id].read.done
                /\ hent'[id].read.inv
                /\ hent'[id].read.ok =>
                      hent'[id].state = EntityStateOf(id, ScheduleAtApi(id))]_vars
    /\ [][\A id \in EntityIds :
            (~hent[id].connected /\ id \notin pend) => id \notin pend']_vars

\* the switch was connected, a service changed the schedule of its tune and
\* sent, and the callback has run and read the changed schedule
C6_Witness ==
    /\ hent["switch"].connected
    /\ "switch" \notin pend
    /\ call.last = SERVICE_ACTIVATE_AWAY
    /\ hent["switch"].read.ok /\ hent["switch"].read.inv
    /\ hent["switch"].state = VStr("on")
    /\ hent["away_mode"].connected
    /\ hent["away_mode"].state = VStr("Active")
    /\ "away_mode" \notin pend

\* C10: after a config entry that was set up is unloaded none of the four
\* services remains registered.
C10_UnloadRemovesServices ==
    ~loaded => registered \cap Services = {}

----------------------------------------------------------------------------
(* Claims about the climate platform *)

\* how many climate entities were added for a room of a tune
RECURSIVE Count(_, _, _)
Count(ds, t, r) ==
    IF ds = <<>> THEN 0
    ELSE (IF Head(ds).tune = t /\ Head(ds).room = r THEN 1 ELSE 0)
         + Count(Tail(ds), t, r)

RoomToControlSet(t) == ctunes[t].roomToControlUuid \notin {"null", ""}

\* C9: when the climate setup completes, for each tune: if roomToControlUuid
\* is set exactly one entity exists, for that room, whatever the rooms'
\* activeControl; otherwise exactly one entity exists for each room whose
\* activeControl is True and none for any other room.
C9_ControlRoomsChosen ==
    csetup.phase = "done" =>
        \A t \in TuneIds, r \in {"r1", "r2", "r3"} :
            Count(csetup.added, t, r) =
                IF RoomToControlSet(t)
                THEN (IF r = ctunes[t].roomToControlUuid THEN 1 ELSE 0)
                ELSE (IF \E i \in DOMAIN ctunes[t].rooms :
                            /\ ctunes[t].rooms[i].uuid = r
                            /\ ctunes[t].rooms[i].activeControl = "True"
                      THEN 1 ELSE 0)

\* setup completed for a tune whose roomToControlUuid names r1 while r2 has
\* activeControl True, and a tune without roomToControlUuid with one room
\* True and one room holding a truthy value that is not True
C9_Witness ==
    /\ csetup.phase = "done"
    /\ ctunes["t1"].roomToControlUuid = "r1"
    /\ ctunes["t1"].rooms[2].activeControl = "True"
    /\ ctunes["t2"].roomToControlUuid = "null"
    /\ ctunes["t2"].rooms[1].activeControl = "True"
    /\ ctunes["t2"].rooms[2].activeControl = "1"
    /\ csetup.added = <<[tune |-> "t1", room |-> "r1"], [tune |-> "t2", room |-> "r1"]>>

----------------------------------------------------------------------------
(* Claims about the config flows *)

NoTokenTwice(es) ==
    \A i \in DOMAIN es, j \in DOMAIN es : i # j => es[i].token # es[j].token

\* C11: no two config entries hold the same token; a flow step whose token
\* is already configured creates no entry, and async_setup starts the
\* import flow only when the YAML token is not configured.
C11_NoTwoEntriesShareToken ==
    /\ NoTokenTwice(entries)
    /\ [][/\ NoTokenTwice(entries')
          /\ \A id \in FlowIds :
                (flows[id].phase = "awaiting"
                    /\ flows[id].token \in configured_instances(entries))
                    => (flows'[id] # flows[id] => entries' = entries)
          /\ (flows["import"].phase = "new" /\ flows'["import"].phase = "scheduled")
                => yamlToken \notin configured_instances(entries)]_vars

\* two flows waited for the API with the same token at once; one created
\* the entry and the other ended without one
C11_Witness ==
    /\ Len(entries) = 1
    /\ flows["user1"].phase = "created"
    /\ flows["user1"].token = "tokB"
    /\ flows["import"].token = "tokB"
    /\ flows["import"].phase = "form"
    /\ flows["import"].unique_id = "tokB"

----------------------------------------------------------------------------
(* Claims about the sensors of a node *)

\* C12: no two sensor entities created for the same node report the same
\* unique_id; in particular the energy, this-month and last-month sensors
\* of one node and type report three different ids.
C12_UniqueIdsDistinct ==
    \A a \in created, b \in created :
        (a # b /\ a.node = b.node) => unique_id(a) # unique_id(b)

----------------------------------------------------------------------------
(* Claims about get_measurement_value and failed updates *)

\* C13: get_measurement_value of the sensors package returns None when the
\* request raises, when the API returns nothing or an empty list, or when
\* the value does not parse; otherwise the value of the last item of a list
\* or of the single measurement; it never returns a number the API did not
\* send.
C13_ValueOrNone ==
    eout.gmvCalled =>
        LET o == eout.o IN
        /\ o.kind \in {"raise", "none"} => eout.gmv = VNone
        /\ (o.kind = "list" /\ o.vs = <<>>) => eout.gmv = VNone
        /\ (o.kind = "list" /\ o.vs # <<>>) =>
              eout.gmv = IF o.vs[Len(o.vs)].ok THEN VNum(o.vs[Len(o.vs)].n) ELSE VNone
        /\ o.kind = "dict" =>
              eout.gmv = IF o.vs[1].ok THEN VNum(o.vs[1].n) ELSE VNone
        /\ eout.gmv.k = "num" =>
              \E i \in DOMAIN o.vs : o.vs[i].ok /\ o.vs[i].n = eout.gmv.n

\* the API answered with a list whose last value differs from the first,
\* and the last was returned
C13_Witness ==
    /\ eout.gmvCalled
    /\ eout.o = List(<<Num(2134), Num(2137)>>)
    /\ eout.gmv = VNum(2137)

\* the API had nothing for the period and None was returned
C13_WitnessNone ==
    /\ eout.gmvCalled
    /\ eout.o = Nothing
    /\ eout.gmv = VNone

\* C14: an async_update that fails (an exception is caught in it or leaves
\* it) keeps the entity's state and target as they were and notifies
\* nothing.
C14_FailedUpdateKeepsValue ==
    (eout.op = "update" /\ (eout.fetchRaised \/ eout.propagated)) =>
        /\ ent.state = eout.prev.state
        /\ ent.target = eout.prev.target
        /\ ~eout.notified

----------------------------------------------------------------------------
(* Claims about the order and the failures of the schedule handlers *)

OrderedHandlers == {SERVICE_SET_AWAY_SCHEDULE, SERVICE_ACTIVATE_AWAY}

EvNames(l) == [i \in DOMAIN l |-> l[i].ev]

\* the start time the handler's change writes into the schedule
ChangedStart(h, input, c) ==
    IF h = SERVICE_SET_AWAY_SCHEDULE
    THEN AsUtcIsoformat(input[1])
    ELSE IsoformatUtc(NowMinute(c))

\* C15: in set_away_schedule and activate_away a pass of the loop runs
\* read, change, update, re-read, send in this order, stopping at the first
\* failure; entities are scheduled only by a pass that sent, and when it
\* sends the API holds the changed schedule and the cache of the tune holds
\* the API's answer.
C15_StepsInOrder ==
    [][(PassDone /\ call.h \in OrderedHandlers) =>
         LET t == Head(call.todo) IN
         /\ EvNames(log') \in {<<"error">>,
                               <<"read", "change", "error">>,
                               <<"read", "change", "update", "error">>,
                               <<"read", "change", "update", "reread", "send">>}
         /\ \A i \in DOMAIN log' : log'[i].tune = t
         /\ pend' # pend => HasEv(log', "send")
         /\ HasEv(log', "send") =>
               /\ tcache'[t] = [valid |-> TRUE, body |-> tapi'[t]]
               /\ \E i \in DOMAIN tapi'[t] :
                     /\ tapi'[t][i].name = SETPONT_SCHEDULE_NAME
                     /\ tapi'[t][i].startTime =
                            ChangedStart(call.h, call.input, clock)]_vars

\* set_away_schedule finished the pass of the second tune with a send
C15_Witness ==
    /\ call.last = SERVICE_SET_AWAY_SCHEDULE
    /\ call.h = "none"
    /\ EvNames(log) = <<"read", "change", "update", "reread", "send">>
    /\ log[1].tune = "t2"
    /\ tapi["t2"] # <<>>
    /\ pend # {}

\* C16: in set_away_schedule and activate_away a pass that fails for its
\* tune sends nothing and schedules no entity, the handler does not raise,
\* and the tunes after it are still to be processed by the same call.
C16_FailureSkipsOnlyThatTune ==
    [][(PassDone /\ call.h \in OrderedHandlers /\ HasEv(log', "error")) =>
         /\ ~HasEv(log', "send")
         /\ pend' = pend
         /\ ~call'.raised
         /\ call'.todo = Tail(call.todo)
         /\ Tail(call.todo) # <<>> => call'.h = call.h]_vars

\* activate_away failed to revalidate the first tune after updating it and
\* goes on with the second
C16_Witness ==
    /\ call.h = SERVICE_ACTIVATE_AWAY
    /\ EvNames(log) = <<"read", "change", "update", "error">>
    /\ log[1].tune = "t1"
    /\ call.todo = <<"t2">>
    /\ ~call.raised
    /\ tapi["t1"] # <<>>

----------------------------------------------------------------------------
(* Claims about the away-mode switch *)

ToggleDone == calls' = calls + 1 /\ call'.last \in {"turn_on", "turn_off"}

\* C17: async_turn_on / async_turn_off with a loaded schedule marks it
\* active / inactive, sends it to the API and only then sends on the topic;
\* without a loaded schedule nothing is requested, sent or changed; is_on
\* of a switch changes only in async_update, to active() of the schedule
\* just read.
C17_ToggleThenUpdateThenSend ==
    /\ [][ToggleDone =>
            LET e == hent["switch"]
                t == EntityTune("switch")
                on == call'.last = "turn_on"
            IN
            /\ hent'["switch"].state = e.state
            /\ ~e.sch.exists =>
                  /\ tapi' = tapi /\ pend' = pend /\ hent' = hent
                  /\ ~HasEv(log', "send")
            /\ e.sch.exists =>
                  /\ hent'["switch"].sch.active = on
                  /\ EvNames(log') \in {<<"change", "update", "send">>,
                                        <<"change", "error">>}
                  /\ pend' # pend => HasEv(log', "send")
                  /\ ~HasEv(log', "send") => tapi' = tapi
                  /\ (HasEv(log', "send") /\ on) =>
                        \E i \in DOMAIN tapi'[t] :
                            /\ tapi'[t][i].name = SETPONT_SCHEDULE_NAME
                            /\ tapi'[t][i].startTime = IsoformatUtc(NowMinute(clock))
                  /\ (HasEv(log', "send") /\ ~on /\ e.sch.json.uuid # NoUuid) =>
                        e.sch.json.uuid \notin ApiUuids(tapi'[t])]_vars
    /\ [][(hent'["switch"].state # hent["switch"].state /\ loaded' = loaded) =>
            /\ ~ToggleDone
            /\ hent'["switch"].read.done
            /\ \E inv \in BOOLEAN :
                  hent'["switch"].sch = ReadSchedule(EntityTune("switch"), inv)
            /\ hent'["switch"].state =
                  VStr(IF hent'["switch"].sch.active THEN "on" ELSE "off")]_vars

\* the switch showing off was turned on: the schedule is active at the API,
\* the callback is scheduled and is_on still shows off
C17_Witness ==
    /\ call.last = "turn_on"
    /\ EvNames(log) = <<"change", "update", "send">>
    /\ hent["switch"].sch.active
    /\ hent["switch"].state = VStr("off")
    /\ "switch" \in pend
    /\ tapi["t1"] # <<>>

\* the switch never loaded a schedule and was turned on: nothing happened
C17_WitnessNoSchedule ==
    /\ call.last = "turn_on"
    /\ EvNames(log) = <<"skip">>
    /\ ~hent["switch"].sch.exists
    /\ pend = {}

----------------------------------------------------------------------------
(* Claims about activate_away and deactivate_away *)

\* C18: right after activate_away the schedule is active, start_time() is
\* the current time cut to the whole minute, end_time() is exactly 60 days
\* later, and so start_time() <= now < end_time().
C18_ActivateFromNowFor60Days ==
    lastOp = "activate_away" =>
        LET st == start_time(sched.json)
            en == end_time(sched.json)
        IN
        /\ sched.active
        /\ st.ok /\ en.ok
        /\ st.t = (clock \div TicksPerMinute) * TicksPerMinute
        /\ en.t - st.t = 60 * 24 * 60 * TicksPerMinute
        /\ st.t <= clock /\ clock < en.t

\* activate_away ran half a minute past the minute on a schedule that was
\* inactive
C18_Witness ==
    /\ lastOp = "activate_away"
    /\ clock % TicksPerMinute = 1
    /\ sched.active
    /\ start_time(sched.json).t = clock - 1

\* C19: right after deactivate_away the schedule is inactive and has no
\* start and no end time; deactivating again changes nothing; an
\* async_update that follows sends DELETE for a schedule with a uuid and
\* nothing for one without.
C19_DeactivateClearsAndDeletes ==
    /\ [](lastOp = "deactivate_away" =>
            /\ ~sched.active
            /\ ~start_time(sched.json).ok
            /\ ~end_time(sched.json).ok
            /\ deactivate_away(sched) = sched)
    /\ [][(lastOp = "deactivate_away" /\ lastOp' \in {"update_ok", "update_failed"}) =>
            reqs' = IF sched.json.uuid = NoUuid
                    THEN <<>>
                    ELSE <<[method |-> "DELETE", uuid |-> sched.json.uuid,
                            body |-> NoJson]>>]_vars

\* an active schedule of the API was deactivated and the update deleted it
C19_Witness ==
    /\ lastOp = "update_ok"
    /\ Len(reqs) = 1 /\ reqs[1].method = "DELETE"
    /\ ~sched.active
    /\ sched.json.startTime = DateNull
    /\ sched.json.uuid \notin ApiUuids(api)

----------------------------------------------------------------------------
(* Claims about the node's measurement types *)

\* C20: once async_measurement_types has returned the node's measurement
\* types, no later call requests them from the API again and every later
\* call returns the set the first call returned, whatever other operations
\* of the node ran in between and also for a node without types.
C20_TypesCachedAfterFirstRead ==
    ~theNode.first.none =>
        /\ theNode.later = 0
        /\ (theNode.lastOp = "async_measurement_types" =>
               theNode.ret = theNode.first)

----------------------------------------------------------------------------
(* Claims about the availability of a sensor entity *)

\* C21: for a sensor entity added to hass, an async_update that changes the
\* entity's available flag (True to False on a failed fetch, False to True
\* on a success) calls schedule_update_ha_state in that same update, also
\* when the fetched value equals the state the entity held.
C21_AvailabilityChangeIsWritten ==
    [][(/\ ekind \in SensorKinds
        /\ ent.added
        /\ eout'.op = "update"
        /\ eout' # eout
        /\ ent'.available # ent.available) => eout'.notified]_vars

====
